---- MODULE Spec2Model ----
(***************************************************************************)
(* A model of the chart instance manager (useChartJSManager.ts) and of the *)
(* gauge component that uses it (PowerUsageGauge.vue).                     *)
(*                                                                         *)
(* One JavaScript event loop: every action is one macrotask (a call made   *)
(* by the host page, a timer callback, a window event) together with the   *)
(* microtasks it queues, so a promise that is settled by a step is         *)
(* observed as settled at the end of that step.                            *)
(***************************************************************************)
EXTENDS Integers, Sequences, FiniteSets

(* ---------------------------------------------------------------- bounds *)
\* chart handles the engine may construct in one run
MaxHandles == 2
\* longest list handed to spawnCharts
MaxList == 2
\* resize listeners one manager may install in one run
MaxListeners == 2
\* debounce timers pending at one time
MaxTimers == 2
\* longest major-tick list given to the tick generator
MaxMajors == 3
\* the major values tried are 1.00 .. 1.00 + MaxSpread/100
MaxSpread == 3
\* largest subdivision count tried
MaxK == 3

(* ------------------------------------------------------------- constants *)
\* retry budget while the element is missing from the document
CanvasRetries == 10
\* retry budget while the element yields no 2D context
ContextRetries == 20
\* default debounce delay of setupResizeListener, in milliseconds
DefaultDelay == 300
\* subdivisions per major interval used by the tick generator
subStepCount == 4
\* the overlay's own subStepCount, declared inside afterDraw
overlaySubStepCount == 5

\* milliseconds by which one Tick advances the clock
Step == DefaultDelay \div 3

\* identifiers of drawing surfaces; "powerGauge" is the gauge's canvas
GaugeId == "powerGauge"
Ids == {GaugeId, "other"}

\* what one look at the document finds for an identifier
DomOutcomes == {"absent", "noctx", "ok"}
\* what `new Chart(ctx, config)` does
BuildOutcomes == {"ok", "throw"}
\* what the engine does with an update: nothing wrong, a throw while the
\* options and data are set, or a throw from chart.update()
UpdateOutcomes == {"ok", "throwApply", "throwUpdate"}

VARIABLES
    \* ---- ChartManager's fields
    chartInstances,      \* Map<string, Chart>: a function from its keys to handles
    initializingCharts,  \* Map<string, boolean>: the keys mapped to true
    resizeHandler,       \* the listener function last created (0 for null)
    \* ---- the engine, the window and the event loop
    charts,              \* every handle the engine constructed, by handle number
    timers,              \* pending setTimeout callbacks of spawnChart
    awaiting,            \* completions of spawnCharts/spawnChart not yet resolved
    listeners,           \* the window's resize listeners made by setupResizeListener
    directListeners,     \* the window's resize listeners added by the component
    debounceTimers,      \* pending setTimeout callbacks of debounce, oldest first
    \* ---- the gauge component
    phase,               \* "setup", "mounted" or "unmounted"
    chartInstance,       \* the component's cached handle (0 for null)
    value,               \* the pointer value, in hundredths
    \* ---- the tick generator run on given inputs
    tickMajors,          \* its major-tick list, in hundredths
    tickK,               \* its subdivision count
    tickTieUp,           \* whether toFixed rounds an exact tie upwards
    tickOut,             \* <<>> before the run, <<sequence>> after it
    \* ---- observation
    quiet,               \* milliseconds since the last resize event (capped)
    burstCalls,          \* resizeCharts calls the current burst has triggered
    disposedSince,       \* dispose() ran and no spawn was requested since
    polls,               \* for the identifiers watched: the polls of their latest creation
    last                 \* the step just taken and what it was observed to do

mgrVars == <<chartInstances, initializingCharts, resizeHandler, charts, timers,
             awaiting, listeners, directListeners, debounceTimers>>
gaugeVars == <<phase, chartInstance, value>>
tickVars == <<tickMajors, tickK, tickTieUp, tickOut>>
burstVars == <<quiet, burstCalls>>
vars == <<mgrVars, gaugeVars, tickVars, burstVars, disposedSince, polls, last>>

(* ------------------------------------------------------------ Map helpers *)
MapHas(m, k) == k \in DOMAIN m
MapSet(m, k, v) == [x \in (DOMAIN m) \cup {k} |-> IF x = k THEN v ELSE m[x]]
MapDelete(m, k) == [x \in (DOMAIN m) \ {k} |-> m[x]]
EmptyMap == [x \in {} |-> 0]
MapValues(m) == {m[k] : k \in DOMAIN m}

(* --------------------------------------------------------- engine handles *)
\* a handle is its index in charts; destroyed counts the destroy() calls on it
NewChart(id) == [id |-> id, destroyed |-> 0]
Destroy(ch, h) == [ch EXCEPT ![h].destroyed = @ + 1]
Handles == 1..Len(charts)
Live(h) == charts[h].destroyed = 0
LiveOf(id) == {h \in Handles : charts[h].id = id /\ Live(h)}

(* ------------------------------------------------------- manager as value *)
\* The state the manager's methods and callbacks read and write, as one
\* record, so that the calls of one handler compose. resolved, rejected,
\* updated and destroyed collect what the handler was observed to do: the
\* completions it resolved and those it rejected (by the identifiers they
\* requested), the handles it asked to redraw and the handles it destroyed.
Mgr == [chartInstances |-> chartInstances,
        initializingCharts |-> initializingCharts,
        resizeHandler |-> resizeHandler,
        charts |-> charts,
        timers |-> timers,
        awaiting |-> awaiting,
        listeners |-> listeners,
        directListeners |-> directListeners,
        debounceTimers |-> debounceTimers,
        resolved |-> {},
        rejected |-> {},
        updated |-> {},
        destroyed |-> {}]

PollTimer(id, retryCount) == [kind |-> "poll", id |-> id, retryCount |-> retryCount]
BuildTimer(id) == [kind |-> "build", id |-> id, retryCount |-> 0]

\* resolve() of the promise of the creation for id: every completion waiting
\* on it stops waiting; one left waiting on nothing resolves.
Resolve(m, id) ==
    LET waited == {[a EXCEPT !.pending = @ \ {id}] : a \in m.awaiting}
        done == {a \in waited : a.pending = {}}
    IN [m EXCEPT !.awaiting = waited \ done,
                 !.resolved = @ \cup {a.requested : a \in done}]

\* tryCreateChart that schedules the construction without tearing down the
\* handle already registered
TryCreateChart_KeepOld(m, id, retryCount, dom) ==
    IF dom = "absent" THEN
        IF retryCount < CanvasRetries
        THEN [m EXCEPT !.timers = @ \cup {PollTimer(id, retryCount + 1)}]
        ELSE Resolve([m EXCEPT !.initializingCharts = @ \ {id}], id)
    ELSE IF dom = "noctx" THEN
        IF retryCount < ContextRetries
        THEN [m EXCEPT !.timers = @ \cup {PollTimer(id, retryCount + 1)}]
        ELSE Resolve([m EXCEPT !.initializingCharts = @ \ {id}], id)
    ELSE [m EXCEPT !.timers = @ \cup {BuildTimer(id)}]

\* tryCreateChart that gives up on the context without calling resolve()
TryCreateChart_NoResolve(m, id, retryCount, dom) ==
    IF dom = "absent" THEN
        IF retryCount < CanvasRetries
        THEN [m EXCEPT !.timers = @ \cup {PollTimer(id, retryCount + 1)}]
        ELSE Resolve([m EXCEPT !.initializingCharts = @ \ {id}], id)
    ELSE IF dom = "noctx" THEN
        IF retryCount < ContextRetries
        THEN [m EXCEPT !.timers = @ \cup {PollTimer(id, retryCount + 1)}]
        ELSE [m EXCEPT !.initializingCharts = @ \ {id}]
    ELSE
        LET m1 == IF MapHas(m.chartInstances, id)
                  THEN [m EXCEPT !.charts = Destroy(@, m.chartInstances[id]),
                                 !.destroyed = @ \cup {m.chartInstances[id]},
                                 !.chartInstances = MapDelete(@, id)]
                  ELSE m
        IN [m1 EXCEPT !.timers = @ \cup {BuildTimer(id)}]

\* tryCreateChart(retryCount) finding dom in the document
TryCreateChart(m, id, retryCount, dom) ==
    IF dom = "absent" THEN
        IF retryCount < CanvasRetries
        THEN [m EXCEPT !.timers = @ \cup {PollTimer(id, retryCount + 1)}]
        ELSE Resolve([m EXCEPT !.initializingCharts = @ \ {id}], id)
    ELSE IF dom = "noctx" THEN
        IF retryCount < ContextRetries
        THEN [m EXCEPT !.timers = @ \cup {PollTimer(id, retryCount + 1)}]
        ELSE Resolve([m EXCEPT !.initializingCharts = @ \ {id}], id)
    ELSE
        LET m1 == IF MapHas(m.chartInstances, id)
                  THEN [m EXCEPT !.charts = Destroy(@, m.chartInstances[id]),
                                 !.destroyed = @ \cup {m.chartInstances[id]},
                                 !.chartInstances = MapDelete(@, id)]
                  ELSE m
        IN [m1 EXCEPT !.timers = @ \cup {BuildTimer(id)}]

\* the construction callback with the cleanup in the try block instead of a
\* finally block: a throw skips it
BuildChart_NoFinally(m, id, outcome) ==
    IF outcome = "ok"
    THEN Resolve([m EXCEPT !.charts = Append(@, NewChart(id)),
                           !.chartInstances = MapSet(@, id, Len(m.charts) + 1),
                           !.initializingCharts = @ \ {id}], id)
    ELSE m

\* the construction callback registering a handle although the constructor
\* threw (the handle is registered before it is fully built)
BuildChart_RegisterFirst(m, id, outcome) ==
    Resolve([m EXCEPT !.charts = Append(@, NewChart(id)),
                      !.chartInstances = MapSet(@, id, Len(m.charts) + 1),
                      !.initializingCharts = @ \ {id}], id)

\* the callback of setTimeout(..., 0): construct, register, finally clear
BuildChart(m, id, outcome) ==
    LET m1 == IF outcome = "ok"
              THEN [m EXCEPT !.charts = Append(@, NewChart(id)),
                             !.chartInstances = MapSet(@, id, Len(m.charts) + 1)]
              ELSE m
    IN Resolve([m1 EXCEPT !.initializingCharts = @ \ {id}], id)

\* spawnChart without the already-initializing check
SpawnChart_NoGuard(m, id, dom) ==
    TryCreateChart([m EXCEPT !.initializingCharts = @ \cup {id}], id, 0, dom)

\* spawnChart(id, config): the synchronous part, up to the first poll
SpawnChart(m, id, dom) ==
    IF id \in m.initializingCharts
    THEN m
    ELSE TryCreateChart([m EXCEPT !.initializingCharts = @ \cup {id}], id, 0, dom)

\* did this spawnChart call start a creation (its promise is pending)?
Started(m, id) == id \notin m.initializingCharts

\* what the document holds for id; doms names it for the identifiers looked up
Found(doms, id) == IF id \in DOMAIN doms THEN doms[id] ELSE "absent"

\* configs.map(spawnChart) from index i on; started collects the pending promises.
\* The calls run in one synchronous pass, so doms (what the document holds for
\* each identifier) is the same for all of them.
RECURSIVE SpawnEach(_, _, _, _, _)
SpawnEach(m, list, doms, i, started) ==
    IF i > Len(list)
    THEN [m |-> m, started |-> started]
    ELSE SpawnEach(SpawnChart(m, list[i], Found(doms, list[i])), list, doms, i + 1,
                   IF Started(m, list[i]) THEN started \cup {list[i]} ELSE started)

\* Promise.race in place of Promise.all: the completion waits for one promise
AwaitAll_Race(m, requested, started) ==
    IF started = {}
    THEN [m EXCEPT !.resolved = @ \cup {requested}]
    ELSE [m EXCEPT !.awaiting = @ \cup {[requested |-> requested,
                                         pending |-> {CHOOSE id \in started : TRUE}]}]

\* await Promise.all(promises): resolved at once when none is pending
AwaitAll(m, requested, started) ==
    IF started = {}
    THEN [m EXCEPT !.resolved = @ \cup {requested}]
    ELSE [m EXCEPT !.awaiting = @ \cup {[requested |-> requested, pending |-> started]}]

SpawnCharts(m, list, doms) ==
    LET r == SpawnEach(m, list, doms, 1, {})
    IN AwaitAll(r.m, {list[i] : i \in 1..Len(list)}, r.started)

\* the loop as it would run over an array spliced while it is iterated: the
\* entry after a deleted one is skipped
RECURSIVE DestroyAll_Skipping(_, _)
DestroyAll_Skipping(ch, hs) ==
    IF hs = {} THEN ch
    ELSE LET h == CHOOSE x \in hs : \A y \in hs : x <= y
             rest == hs \ {h}
             skipped == IF rest = {} THEN {}
                        ELSE {CHOOSE x \in rest : \A y \in rest : x <= y}
         IN DestroyAll_Skipping(Destroy(ch, h), rest \ skipped)

\* chartInstances.forEach((chart, id) => { chart.destroy(); delete(id) }):
\* a Map's forEach visits every entry although the visited one is deleted
RECURSIVE DestroyAll(_, _)
DestroyAll(ch, hs) ==
    IF hs = {} THEN ch
    ELSE LET h == CHOOSE x \in hs : TRUE
         IN DestroyAll(Destroy(ch, h), hs \ {h})

\* dispose(): remove the listener resizeHandler names (the field is left as it
\* is), then destroy and delete every registered handle
Dispose(m) ==
    [m EXCEPT !.listeners = IF m.resizeHandler # 0 THEN MapDelete(@, m.resizeHandler) ELSE @,
              !.charts = DestroyAll(@, MapValues(m.chartInstances)),
              !.destroyed = @ \cup MapValues(m.chartInstances),
              !.chartInstances = EmptyMap]

\* disposeChart that forgets the handle without destroying it
DisposeChart_NoDestroy(m, id) ==
    IF MapHas(m.chartInstances, id)
    THEN [m EXCEPT !.chartInstances = MapDelete(@, id)]
    ELSE m

\* disposeChart(id)
DisposeChart(m, id) ==
    IF MapHas(m.chartInstances, id)
    THEN [m EXCEPT !.charts = Destroy(@, m.chartInstances[id]),
                   !.destroyed = @ \cup {m.chartInstances[id]},
                   !.chartInstances = MapDelete(@, id)]
    ELSE m

\* getChart(id): the handle, or 0 for undefined
GetChart(m, id) == IF MapHas(m.chartInstances, id) THEN m.chartInstances[id] ELSE 0

\* resizeCharts over every handle the engine ever constructed
ResizeCharts_AllBuilt(m) == [m EXCEPT !.updated = @ \cup (1..Len(m.charts))]

\* the update("resize") calls one resizeCharts() makes on the handle h: one
\* for each key under which the registry holds it
ResizeCalls(m, h) ==
    Cardinality({id \in DOMAIN m.chartInstances : m.chartInstances[id] = h})

\* resizeCharts(): chart.update("resize") on every registered handle
ResizeCharts(m) == [m EXCEPT !.updated = @ \cup MapValues(m.chartInstances)]

(* ---------------------------------------------------------------- updates *)
\* updateChartConfig that looks nothing up: the options of undefined are
\* read and the TypeError rejects the promise
UpdateChartConfig_NoLookup(m, id, outcome) ==
    IF MapHas(m.chartInstances, id)
    THEN [m EXCEPT !.updated = @ \cup {m.chartInstances[id]},
                   !.resolved = @ \cup {{id}}]
    ELSE [m EXCEPT !.rejected = @ \cup {{id}}]

\* updateChartConfig(id, config): the executor given to new Promise runs at
\* once. A throw inside it rejects the promise, and resolve() is not reached;
\* a throw from chart.update() comes after the redraw was asked for.
UpdateChartConfig(m, id, outcome) ==
    IF MapHas(m.chartInstances, id)
    THEN IF outcome = "ok"
         THEN [m EXCEPT !.updated = @ \cup {m.chartInstances[id]},
                        !.resolved = @ \cup {{id}}]
         ELSE IF outcome = "throwApply"
         THEN [m EXCEPT !.rejected = @ \cup {{id}}]
         ELSE [m EXCEPT !.updated = @ \cup {m.chartInstances[id]},
                        !.rejected = @ \cup {{id}}]
    ELSE [m EXCEPT !.resolved = @ \cup {{id}}]

\* configs.forEach(... updateChartConfig ...) from index i on; outcomes[i] is
\* what the engine does with the i-th update. No call throws to the loop, so
\* every entry is visited.
RECURSIVE UpdateEach(_, _, _, _)
UpdateEach(m, list, outcomes, i) ==
    IF i > Len(list)
    THEN m
    ELSE UpdateEach(UpdateChartConfig(m, list[i], outcomes[i]), list, outcomes, i + 1)

\* updateAllCharts(configs), for an array or for the entries of a record:
\* await Promise.all(updatePromises) rejects when one of the promises does.
\* Only the completion of updateAllCharts itself is observed.
UpdateAllCharts(m, list, outcomes) ==
    LET m1 == UpdateEach(m, list, outcomes, 1)
        requested == {list[i] : i \in 1..Len(list)}
    IN IF m1.rejected = m.rejected
       THEN [m1 EXCEPT !.resolved = m.resolved \cup {requested}]
       ELSE [m1 EXCEPT !.resolved = m.resolved,
                       !.rejected = m.rejected \cup {requested}]

(* ------------------------------------------------------ debounced resize *)
\* a timer id no pending debounce timer uses
FreshTimer(m) ==
    CHOOSE n \in 1..(Len(m.debounceTimers) + 1) :
        \A i \in 1..Len(m.debounceTimers) : m.debounceTimers[i].tid # n

ClearTimeout(m, tid) ==
    [m EXCEPT !.debounceTimers = SelectSeq(@, LAMBDA t : t.tid # tid)]

\* One call of the function debounce(func, delay) returns, made for the
\* listener lid, when the closure's timeoutId holds timeoutId (0 for null):
\* clear the timer it names, then set a new one. A timer is observed to be
\* current while the burst of the event that set it lasts.
Debounced(m, timeoutId, lid, delay) ==
    LET m1 == IF timeoutId # 0 THEN ClearTimeout(m, timeoutId) ELSE m
    IN [m1 EXCEPT !.debounceTimers =
            Append(@, [tid |-> FreshTimer(m1), lid |-> lid, delay |-> delay,
                       remaining |-> delay, current |-> TRUE])]

\* resizeHandler: every event makes a new closure with debounce(...), whose
\* timeoutId starts as null, and calls it once
ResizeHandler(m, lid) == Debounced(m, 0, lid, m.listeners[lid])

\* setupResizeListener(delay): a new function object becomes resizeHandler
\* and is added to the window
FreshListener(m) ==
    LET used == DOMAIN m.listeners \cup {m.resizeHandler}
    IN CHOOSE n \in 1..(Cardinality(used) + 1) : n \notin used

SetupResizeListener(m, delay) ==
    LET lid == FreshListener(m)
    IN [m EXCEPT !.resizeHandler = lid,
                 !.listeners = MapSet(@, lid, delay)]

\* the window dispatches one resize event to its listeners
RECURSIVE RunHandlers(_, _)
RunHandlers(m, lids) ==
    IF lids = {} THEN m
    ELSE LET lid == CHOOSE x \in lids : \A y \in lids : x <= y
         IN RunHandlers(ResizeHandler(m, lid), lids \ {lid})

DispatchResize(m) ==
    LET m1 == RunHandlers(m, DOMAIN m.listeners)
    IN IF m.directListeners > 0 THEN ResizeCharts(m1) ELSE m1

(* --------------------------------------------------------- tick generator *)
\* const majorTickValues = [1, 1.2, ..., 3], in hundredths
majorTickValues == [i \in 1..11 |-> 100 + 20 * (i - 1)]

\* n/d rounded to the nearest integer, an exact tie going up or down as the
\* binary value of the quotient happens to lie: toFixed(2) on hundredths
Round(n, d, up) ==
    LET q == n \div d
        r == n % d
    IN IF 2 * r < d THEN q
       ELSE IF 2 * r > d THEN q + 1
       ELSE IF up THEN q + 1 ELSE q

\* parseFloat((prev + ((curr - prev) * s) / k).toFixed(2))
SubVal(prev, curr, s, k, up) == Round(prev * k + (curr - prev) * s, k, up)

\* the inner loop running one step too far
InnerContinues_Inclusive(s, k) == s <= k

\* the test of the inner loop: for (let s = 1; s < subStepCount; s++)
InnerContinues(s, k) == s < k

RECURSIVE MinorTicks(_, _, _, _, _)
MinorTicks(prev, curr, s, k, up) ==
    IF InnerContinues(s, k)
    THEN <<SubVal(prev, curr, s, k, up)>> \o MinorTicks(prev, curr, s + 1, k, up)
    ELSE <<>>

\* one pass of the outer loop at (1-based) index i: the major value is pushed
\* first, then (but for the first) the values between it and its predecessor
TicksAt(M, i, k, up) ==
    <<M[i]>> \o (IF i = 1 THEN <<>> ELSE MinorTicks(M[i - 1], M[i], 1, k, up))

RECURSIVE TicksFrom(_, _, _, _)
TicksFrom(M, i, k, up) ==
    IF i > Len(M) THEN <<>>
    ELSE TicksAt(M, i, k, up) \o TicksFrom(M, i + 1, k, up)

FullTickValues(M, k, up) == TicksFrom(M, 1, k, up)

(* ---------------------------------------------------------- tick overlay *)
\* afterDraw's own majorTickValues and its segments, in hundredths
overlayMajorTickValues == [i \in 1..11 |-> 100 + 20 * (i - 1)]
segments == <<[from |-> 100, to |-> 140], [from |-> 140, to |-> 180],
              [from |-> 180, to |-> 300]>>

\* A tick is drawn at the value n/d hundredths. The overlay does not round:
\* subVal = prevVal + ((val - prevVal) * s) / subStepCount.
MajorTick(val) == [n |-> val, d |-> 1]
MinorTick(prevVal, val, s, k) == [n |-> prevVal * k + (val - prevVal) * s, d |-> k]

\* if (v < segment.from || v > segment.to) return / continue
InSegment(tick, segment) ==
    segment.from * tick.d <= tick.n /\ tick.n <= segment.to * tick.d

\* the ticks drawn for the major value at index i within one segment: its
\* own, and those between it and the major value before it
TicksDrawnAt(M, i, k, segment) ==
    IF ~InSegment(MajorTick(M[i]), segment) THEN {}
    ELSE {MajorTick(M[i])} \cup
         (IF i - 1 >= 1
          THEN {tick \in {MinorTick(M[i - 1], M[i], s, k) : s \in 1..(k - 1)} :
                    InSegment(tick, segment)}
          ELSE {})

\* segments.forEach(... majorTickValues.forEach(...)): every tick afterDraw
\* draws
DrawnTicks(M, k) ==
    UNION {TicksDrawnAt(M, i, k, segments[j]) :
               i \in 1..Len(M), j \in 1..Len(segments)}

\* the value v, in hundredths, lies on the tick
OnTick(v, tick) == v * tick.d = tick.n

(* ------------------------------------------------------- counting polls *)
\* the count of a creation that has not looked at the document yet
NoPolls == [absent |-> 0, noctx |-> 0, found |-> "none"]

\* one more run of tryCreateChart, which found dom
PollFound(c, dom) ==
    [absent |-> c.absent + (IF dom = "absent" THEN 1 ELSE 0),
     noctx |-> c.noctx + (IF dom = "noctx" THEN 1 ELSE 0),
     found |-> dom]

\* a timer callback ran tryCreateChart for id
CountPoll(p, id, dom) ==
    IF id \in DOMAIN p THEN [p EXCEPT ![id] = PollFound(@, dom)] ELSE p

\* the creations a call starts for ids run tryCreateChart() at once
CountFirstPolls(p, ids, doms) ==
    [id \in DOMAIN p |->
        IF id \in ids THEN PollFound(NoPolls, Found(doms, id)) ELSE p[id]]

\* every run of tryCreateChart the latest creation made
PollsMade(c) == c.absent + c.noctx + (IF c.found = "ok" THEN 1 ELSE 0)

(* ----------------------------------------------------------------- steps *)
Install(m) ==
    /\ chartInstances' = m.chartInstances
    /\ initializingCharts' = m.initializingCharts
    /\ resizeHandler' = m.resizeHandler
    /\ charts' = m.charts
    /\ timers' = m.timers
    /\ awaiting' = m.awaiting
    /\ listeners' = m.listeners
    /\ directListeners' = m.directListeners
    /\ debounceTimers' = m.debounceTimers

Event(op, id, m) ==
    [op |-> op, id |-> id, resolved |-> m.resolved, rejected |-> m.rejected,
     updated |-> m.updated, destroyed |-> m.destroyed, early |-> FALSE]

\* the host asks for no more creations than the engine's handle budget
Room(ids) ==
    Len(charts) + Cardinality(timers) + Cardinality(ids \ initializingCharts) <= MaxHandles

Lists == UNION {[1..n -> Ids] : n \in 1..MaxList}
Range(f) == {f[i] : i \in DOMAIN f}

\* the debounce delays the host asks for; the default is used by the composable
Delays == {Step, 2 * Step}
\* from here on the time since the last resize event is not told apart
QuietCap == DefaultDelay
\* a count that stops at "more than one"
Counted(n) == IF n < 2 THEN n + 1 ELSE n

InitManager ==
    /\ chartInstances = EmptyMap
    /\ initializingCharts = {}
    /\ resizeHandler = 0
    /\ charts = <<>>
    /\ timers = {}
    /\ awaiting = {}
    /\ listeners = EmptyMap
    /\ directListeners = 0
    /\ debounceTimers = <<>>

InitObserved ==
    /\ quiet = QuietCap
    /\ burstCalls = 0
    /\ disposedSince = FALSE
    /\ last = [op |-> "init", id |-> "", resolved |-> {}, rejected |-> {},
               updated |-> {}, destroyed |-> {}, early |-> FALSE]

\* no gauge component: the manager is driven by the host directly
NoGauge ==
    /\ phase = "none"
    /\ chartInstance = 0
    /\ value = 0

\* the tick generator of the program, not looked at
ProgramTicks ==
    /\ tickMajors = majorTickValues
    /\ tickK = subStepCount
    /\ tickTieUp = TRUE
    /\ tickOut = <<>>

\* no identifier's polls are watched
NoneWatched == polls = EmptyMap

Init == InitManager /\ InitObserved /\ NoGauge /\ ProgramTicks /\ NoneWatched

(* ---- the manager's operations, called by the host *)
SpawnChartsCall ==
    \E list \in Lists : \E doms \in [Range(list) \ initializingCharts -> DomOutcomes] :
        /\ Room(Range(list))
        /\ LET m == SpawnCharts(Mgr, list, doms)
           IN /\ Install(m)
              /\ last' = Event("spawnCharts", "", m)
        /\ polls' = CountFirstPolls(polls, Range(list) \ initializingCharts, doms)
        /\ disposedSince' = FALSE
        /\ UNCHANGED <<gaugeVars, tickVars, burstVars>>

SpawnChartCall ==
    \E id \in Ids : \E dom \in (IF Started(Mgr, id) THEN DomOutcomes ELSE {"absent"}) :
        /\ Room({id})
        /\ LET m == AwaitAll(SpawnChart(Mgr, id, dom), {id},
                             IF Started(Mgr, id) THEN {id} ELSE {})
           IN /\ Install(m)
              /\ last' = Event(IF Started(Mgr, id) THEN "spawnChart" ELSE "spawnChartDropped",
                               id, m)
        /\ polls' = CountFirstPolls(polls, {id} \ initializingCharts, [x \in {id} |-> dom])
        /\ disposedSince' = FALSE
        /\ UNCHANGED <<gaugeVars, tickVars, burstVars>>

DisposeCall ==
    /\ LET m == Dispose(Mgr)
       IN /\ Install(m)
          /\ last' = Event("dispose", "", m)
    /\ disposedSince' = TRUE
    /\ UNCHANGED <<gaugeVars, tickVars, polls, burstVars>>

DisposeChartCall ==
    \E id \in Ids :
        /\ LET m == DisposeChart(Mgr, id)
           IN /\ Install(m)
              /\ last' = Event("disposeChart", id, m)
        /\ UNCHANGED <<gaugeVars, tickVars, polls, burstVars, disposedSince>>

(* ---- the timer callbacks of spawnChart *)
PollFire ==
    \E t \in timers : \E dom \in DomOutcomes :
        /\ t.kind = "poll"
        /\ LET m == TryCreateChart([Mgr EXCEPT !.timers = @ \ {t}], t.id, t.retryCount, dom)
           IN /\ Install(m)
              /\ last' = Event("poll", t.id, m)
        /\ polls' = CountPoll(polls, t.id, dom)
        /\ UNCHANGED <<gaugeVars, tickVars, burstVars, disposedSince>>

BuildFire ==
    \E t \in timers : \E outcome \in BuildOutcomes :
        /\ t.kind = "build"
        /\ LET m == BuildChart([Mgr EXCEPT !.timers = @ \ {t}], t.id, outcome)
           IN /\ Install(m)
              /\ last' = Event(IF outcome = "ok" THEN "build" ELSE "buildThrew", t.id, m)
        /\ UNCHANGED <<gaugeVars, tickVars, polls, burstVars, disposedSince>>

Next ==
    \/ SpawnChartsCall
    \/ SpawnChartCall
    \/ PollFire
    \/ BuildFire
    \/ DisposeCall
    \/ DisposeChartCall

\* the manager driven by the host, timers firing in any order
Spec == Init /\ [][Next]_vars

(* ---- the registry used by the host: updates and resizes *)
UpdateChartConfigCall ==
    \E id \in Ids : \E outcome \in UpdateOutcomes :
        /\ MapHas(chartInstances, id) \/ outcome = "ok"
        /\ LET m == UpdateChartConfig(Mgr, id, outcome)
           IN /\ Install(m)
              /\ last' = Event("updateChartConfig", id, m)
        /\ UNCHANGED <<gaugeVars, tickVars, polls, burstVars, disposedSince>>

UpdateAllChartsCall ==
    \E list \in Lists : \E outcomes \in [1..Len(list) -> UpdateOutcomes] :
        /\ \A i \in 1..Len(list) : MapHas(chartInstances, list[i]) \/ outcomes[i] = "ok"
        /\ LET m == UpdateAllCharts(Mgr, list, outcomes)
           IN /\ Install(m)
              /\ last' = Event("updateAllCharts", "", m)
        /\ UNCHANGED <<gaugeVars, tickVars, polls, burstVars, disposedSince>>

ResizeChartsCall ==
    /\ LET m == ResizeCharts(Mgr)
       IN /\ Install(m)
          /\ last' = Event("resizeCharts", "", m)
    /\ UNCHANGED <<gaugeVars, tickVars, polls, burstVars, disposedSince>>

RegistryNext ==
    \/ SpawnChartCall
    \/ PollFire
    \/ BuildFire
    \/ DisposeCall
    \/ DisposeChartCall
    \/ UpdateChartConfigCall
    \/ ResizeChartsCall

\* the registry spawned into one identifier at a time, disposed of, updated
\* and resized by the host in any order
RegistrySpec == Init /\ [][RegistryNext]_vars

UpdateNext ==
    \/ RegistryNext
    \/ UpdateAllChartsCall

\* the same with updateAllCharts
UpdateSpec == Init /\ [][UpdateNext]_vars

(* ---- creations with the polls of the gauge's canvas counted *)
RetryInit ==
    /\ InitManager
    /\ InitObserved
    /\ NoGauge
    /\ ProgramTicks
    /\ polls = [id \in {GaugeId} |-> NoPolls]

RetryNext ==
    \/ SpawnChartCall
    \/ PollFire
    \/ BuildFire

RetrySpec == RetryInit /\ [][RetryNext]_vars

\* the pending timer of the creation for id fires: setTimeout callbacks run
\* once their delay is over, whatever else the event loop has to do
TimerFires(id) == (PollFire \/ BuildFire) /\ last'.id = id

\* creations whose timers always fire in the end
FairSpec == Init /\ [][RetryNext]_vars /\ \A id \in Ids : WF_vars(TimerFires(id))

(* ---- the resize listener, with a clock *)
\* is the listener resizeHandler names on the window, and with which delay?
Registered == resizeHandler # 0 /\ MapHas(listeners, resizeHandler)
RegisteredDelay == listeners[resizeHandler]

SetupResizeListenerCall ==
    \E delay \in Delays :
        /\ Cardinality(DOMAIN listeners) < MaxListeners
        /\ LET m == SetupResizeListener(Mgr, delay)
           IN /\ Install(m)
              /\ last' = Event("setupResizeListener", "", m)
        /\ quiet' = QuietCap
        /\ burstCalls' = 0
        /\ UNCHANGED <<gaugeVars, tickVars, polls, disposedSince>>

\* the timers still pending when a new burst begins belong to earlier bursts
Outdated(m) ==
    [m EXCEPT !.debounceTimers =
        [i \in 1..Len(@) |-> [@[i] EXCEPT !.current = FALSE]]]

\* A resize event. It belongs to the burst of the one before it when it
\* follows it by less than the registered listener's delay.
WindowResize ==
    LET newBurst == IF Registered THEN quiet >= RegisteredDelay ELSE TRUE
    IN /\ Len(debounceTimers) + Cardinality(DOMAIN listeners) <= MaxTimers
       /\ LET m == DispatchResize(IF newBurst THEN Outdated(Mgr) ELSE Mgr)
          IN /\ Install(m)
             /\ last' = Event("resize", "", m)
       /\ quiet' = 0
       /\ burstCalls' = IF newBurst THEN 0 ELSE burstCalls
       /\ UNCHANGED <<gaugeVars, tickVars, polls, disposedSince>>

Due(t) == t.remaining = 0
AnyDue == \E i \in 1..Len(debounceTimers) : Due(debounceTimers[i])

\* Step milliseconds pass; a due timer runs before the clock moves on
Tick ==
    /\ ~AnyDue
    /\ IF debounceTimers = <<>> THEN quiet < QuietCap ELSE TRUE
    /\ debounceTimers' = [i \in 1..Len(debounceTimers) |->
            [debounceTimers[i] EXCEPT !.remaining = IF @ > Step THEN @ - Step ELSE 0]]
    /\ quiet' = IF quiet + Step > QuietCap THEN QuietCap ELSE quiet + Step
    /\ last' = Event("tick", "", Mgr)
    /\ UNCHANGED <<chartInstances, initializingCharts, resizeHandler, charts, timers,
                   awaiting, listeners, directListeners>>
    /\ UNCHANGED <<gaugeVars, tickVars, polls, burstCalls, disposedSince>>

\* The callback debounce gave to setTimeout: func(), i.e. resizeCharts().
\* It counts for the current burst when the registered listener's event of
\* that burst set it, and is early when the burst's latest event is less
\* than the delay ago.
DebounceFire ==
    \E i \in 1..Len(debounceTimers) :
        LET t == debounceTimers[i]
            ofBurst == t.lid = resizeHandler /\ t.current
        IN /\ Due(t)
           /\ \A j \in 1..(i - 1) : ~Due(debounceTimers[j])
           /\ LET m == ResizeCharts(ClearTimeout(Mgr, t.tid))
              IN /\ Install(m)
                 /\ last' = [Event("debounceFire", "", m) EXCEPT
                                !.early = ofBurst /\ quiet < t.delay]
           /\ burstCalls' = IF ofBurst THEN Counted(burstCalls) ELSE burstCalls
           /\ UNCHANGED <<gaugeVars, tickVars, polls, quiet, disposedSince>>

ResizeNext ==
    \/ SetupResizeListenerCall
    \/ WindowResize
    \/ Tick
    \/ DebounceFire
    \/ DisposeCall

ResizeSpec == Init /\ [][ResizeNext]_vars

(* ---- the gauge component *)
\* the state once <script setup> has run: the full tick sequence is built and
\* the pointer value is drawn from it
GaugeInit ==
    /\ InitManager
    /\ InitObserved
    /\ NoneWatched
    /\ phase = "setup"
    /\ chartInstance = 0
    /\ tickMajors = majorTickValues
    /\ tickK = subStepCount
    /\ tickTieUp = TRUE
    /\ tickOut = <<FullTickValues(majorTickValues, subStepCount, TRUE)>>
    /\ value \in Range(tickOut[1])

\* initChart(): dispose, spawnCharts([powerGauge]) not awaited, then getChart
InitChart(m, dom) ==
    SpawnCharts(Dispose(m), <<GaugeId>>, [id \in {GaugeId} |-> dom])

\* The mounted hooks, in the order they were registered: the composable's
\* (line 214 of the manager, made by useChartManager() at line 15 of the
\* component), then the component's own.
Mount ==
    \E dom \in DomOutcomes :
        /\ phase = "setup"
        /\ LET m1 == SetupResizeListener(Mgr, DefaultDelay)
               m2 == InitChart(m1, dom)
           IN /\ Install([m2 EXCEPT !.directListeners = @ + 1])
              /\ chartInstance' = GetChart(m2, GaugeId)
              /\ last' = Event("mount", GaugeId, m2)
        /\ polls' = CountFirstPolls(polls, {GaugeId}, [id \in {GaugeId} |-> dom])
        /\ phase' = "mounted"
        /\ disposedSince' = FALSE
        /\ UNCHANGED <<value, tickVars, burstVars>>

\* watch(value, ...): the pointer value changes and the watcher runs
Watch(m) == IF chartInstance # 0 THEN [m EXCEPT !.updated = @ \cup {chartInstance}] ELSE m

SetValue ==
    \E v \in Range(tickMajors) :
        /\ phase \in {"setup", "mounted"}
        /\ v # value
        /\ value' = v
        /\ LET m == Watch(Mgr)
           IN /\ Install(m)
              /\ last' = Event("setValue", GaugeId, m)
        /\ UNCHANGED <<phase, chartInstance, tickVars, polls, burstVars, disposedSince>>

\* onUnmounted: dispose()
Unmount ==
    /\ phase = "mounted"
    /\ LET m == Dispose(Mgr)
       IN /\ Install(m)
          /\ last' = Event("unmount", GaugeId, m)
    /\ phase' = "unmounted"
    /\ disposedSince' = TRUE
    /\ UNCHANGED <<chartInstance, value, tickVars, polls, burstVars>>

GaugeNext ==
    \/ Mount
    \/ SetValue
    \/ Unmount
    \/ PollFire
    \/ BuildFire

GaugeSpec == GaugeInit /\ [][GaugeNext]_vars

(* ---- the tick generator on given inputs *)
TickValues == {100 + j : j \in 0..MaxSpread}
TickLists == UNION {[1..n -> TickValues] : n \in 0..MaxMajors}

TickInit ==
    /\ InitManager
    /\ InitObserved
    /\ NoGauge
    /\ NoneWatched
    /\ tickMajors \in TickLists
    /\ tickK \in 1..MaxK
    /\ tickTieUp \in BOOLEAN
    /\ tickOut = <<>>

Generate ==
    /\ tickOut = <<>>
    /\ tickOut' = <<FullTickValues(tickMajors, tickK, tickTieUp)>>
    /\ last' = [last EXCEPT !.op = "generate"]
    /\ UNCHANGED <<mgrVars, gaugeVars, tickMajors, tickK, tickTieUp, burstVars, disposedSince,
                   polls>>

TickNext == Generate

TickSpec == TickInit /\ [][TickNext]_vars

(* ================================================================ claims *)
InFlight(id) == \E t \in timers : t.id = id
Finishing == last.op \in {"poll", "build", "buildThrew"} /\ last.resolved # {}

C2_OneCallPerBurst ==
    /\ burstCalls <= 1
    /\ last.op = "debounceFire" => ~last.early

\* C3: once dispose() has run and until a spawn is requested, the registry is
\* empty and no handle is live, whatever creation was in flight.
C3_NothingBuiltAfterDispose ==
    disposedSince => /\ DOMAIN chartInstances = {}
                     /\ \A h \in Handles : ~Live(h)

\* C4: each identifier has at most one live handle, every live handle is the
\* one the registry holds for its identifier, and every handle the registry
\* holds is live and was constructed for that identifier.
C4_OneLiveHandle ==
    /\ \A id \in Ids : Cardinality(LiveOf(id)) <= 1
    /\ \A h \in Handles : Live(h) =>
          MapHas(chartInstances, charts[h].id) /\ chartInstances[charts[h].id] = h
    /\ \A id \in DOMAIN chartInstances :
          /\ chartInstances[id] \in Handles
          /\ Live(chartInstances[id])
          /\ charts[chartInstances[id]].id = id

C4_Witness ==
    \E h1, h2 \in Handles :
        /\ h1 < h2
        /\ charts[h1].id = charts[h2].id
        /\ ~Live(h1)
        /\ Live(h2)
        /\ GetChart(Mgr, charts[h2].id) = h2

\* C5: while the deferred construction for an identifier is pending (the gap
\* after the successful poll), getChart reports absence and no handle of the
\* identifier is live; and a handle is constructed only by a step of its own
\* that starts from such a gap and destroys nothing, so the old handle's
\* destroy() came in an earlier step.
C5_DestroyBeforeConstruct ==
    [][/\ \A t \in timers' : t.kind = "build" =>
             /\ ~MapHas(chartInstances', t.id)
             /\ \A h \in 1..Len(charts') : charts'[h].id = t.id => charts'[h].destroyed > 0
       /\ Len(charts') > Len(charts) =>
             /\ BuildTimer(charts'[Len(charts')].id) \in timers
             /\ LiveOf(charts'[Len(charts')].id) = {}
             /\ SubSeq(charts', 1, Len(charts)) = charts]_vars

C5_Witness ==
    /\ last.op \in {"poll", "spawnChart", "spawnCharts"}
    /\ \E t \in timers : \E h \in Handles :
          /\ t.kind = "build"
          /\ charts[h].id = t.id
          /\ charts[h].destroyed = 1
          /\ GetChart(Mgr, t.id) = 0

\* C6: a change of the pointer value while the registry holds the gauge's
\* chart requests a redraw on that chart.
C6_RedrawOnChange ==
    (last.op = "setValue" /\ MapHas(chartInstances, GaugeId)) =>
        chartInstances[GaugeId] \in last.updated

\* C7: the in-flight flag of an identifier is set exactly while a creation
\* step for it is pending, and it is clear when the step that ends the
\* creation (construction, throw, exhausted budget) resolves the completion.
C7_FlagWhileInFlight ==
    /\ \A id \in Ids : id \in initializingCharts <=> InFlight(id)
    /\ Finishing => last.id \notin initializingCharts

C7_Witness ==
    /\ last.op = "buildThrew"
    /\ last.resolved # {}
    /\ last.id \notin initializingCharts

\* C8 as claimed: when a completion resolves, no creation for any identifier
\* it requested is in flight.
C8_AllRequestedFinished ==
    \A requested \in last.resolved : requested \cap initializingCharts = {}

\* C8 as amended: a completion stays pending until every creation its call
\* started has finished: each creation in flight is awaited by a completion
\* that requested it.
C8_StartedFinished ==
    /\ \A id \in initializingCharts : \E a \in awaiting : id \in a.pending
    /\ \A a \in awaiting : a.pending # {} /\ a.pending \subseteq a.requested

C8_Witness ==
    /\ Finishing
    /\ \E requested \in last.resolved : Cardinality(requested) = 2
    /\ initializingCharts = {}

StrictlyIncreasing(seq) == \A i \in 1..(Len(seq) - 1) : seq[i] < seq[i + 1]
Generated == tickOut # <<>>

\* C9: for a strictly increasing major-tick list the generated sequence is
\* strictly increasing in the order emitted.
C9_StrictlyIncreasing ==
    (Generated /\ StrictlyIncreasing(tickMajors)) => StrictlyIncreasing(tickOut[1])

C11_UpdateNeverRejects ==
    last.op \in {"updateChartConfig", "updateAllCharts"} =>
        last.rejected = {} /\ last.resolved # {}

\* C12: when dispose() has run, no resize listener made by
\* setupResizeListener is left on the window, however many times
\* setupResizeListener was called before.
C12_NoListenerAfterDispose ==
    last.op = "dispose" => DOMAIN listeners = {}

\* C13: updateChartConfig for an identifier the registry does not hold
\* resolves, does not reject, and changes nothing: registry, in-flight flags,
\* engine handles and timers stay as they are and no redraw is asked for.
C13_UpdateAbsentIsNoOp ==
    [][(last'.op = "updateChartConfig" /\ ~MapHas(chartInstances, last'.id)) =>
          /\ UNCHANGED mgrVars
          /\ last'.resolved = {{last'.id}}
          /\ last'.rejected = {}
          /\ last'.updated = {}
          /\ last'.destroyed = {}]_vars

\* the update of an absent identifier, made while its creation is in flight
\* and another identifier's handle is registered
C13_Witness ==
    /\ last.op = "updateChartConfig"
    /\ ~MapHas(chartInstances, last.id)
    /\ last.id \in initializingCharts
    /\ DOMAIN chartInstances # {}
    /\ last.resolved = {{last.id}}

\* C14: whatever spawns and disposals came before, resizeCharts() asks for a
\* redraw on exactly the handles the registry holds, once on each, and on no
\* destroyed handle.
C14_ResizeRegisteredOnce ==
    last.op = "resizeCharts" =>
        /\ last.updated = MapValues(chartInstances)
        /\ \A h \in Handles :
              ResizeCalls(Mgr, h) = IF h \in last.updated THEN 1 ELSE 0
        /\ \A h \in Handles : ~Live(h) => h \notin last.updated

\* a resize with one handle destroyed earlier and one registered
C14_Witness ==
    /\ last.op = "resizeCharts"
    /\ \E h1, h2 \in Handles : ~Live(h1) /\ Live(h2) /\ last.updated = {h2}

\* C15: when new Chart throws in the construction step for an identifier,
\* the step resolves the completion of the call that started the creation,
\* clears the flag, registers nothing for the identifier (no handle of it is
\* live: the one registered before was destroyed by the poll), and leaves
\* the engine's handles and the registry of the other identifiers as they were.
C15_ThrowLeavesSlotEmpty ==
    [][last'.op = "buildThrew" =>
          /\ {last'.id} \in last'.resolved
          /\ last'.rejected = {}
          /\ last'.id \notin initializingCharts'
          /\ \A a \in awaiting' : last'.id \notin a.pending
          /\ ~MapHas(chartInstances', last'.id)
          /\ \A h \in 1..Len(charts') : charts'[h].id = last'.id => charts'[h].destroyed > 0
          /\ charts' = charts
          /\ chartInstances' = chartInstances]_vars

\* the constructor threw while replacing a handle that was registered
C15_Witness ==
    /\ last.op = "buildThrew"
    /\ {last.id} \in last.resolved
    /\ \E h \in Handles : charts[h].id = last.id /\ charts[h].destroyed = 1
    /\ ~MapHas(chartInstances, last.id)

\* C16: dispose() calls destroy() once on every handle the registry holds
\* when it is called and on no other handle, and leaves the registry empty,
\* however many handles are registered.
C16_DisposeDestroysEachOnce ==
    [][last'.op = "dispose" =>
          /\ DOMAIN chartInstances' = {}
          /\ Len(charts') = Len(charts)
          /\ \A h \in Handles :
                /\ charts'[h].id = charts[h].id
                /\ charts'[h].destroyed = charts[h].destroyed +
                      (IF h \in MapValues(chartInstances) THEN 1 ELSE 0)
          /\ last'.destroyed = MapValues(chartInstances)]_vars

\* a dispose() that found two handles registered
C16_Witness ==
    /\ last.op = "dispose"
    /\ Cardinality(last.destroyed) = 2
    /\ \A h \in last.destroyed : charts[h].destroyed = 1
    /\ DOMAIN chartInstances = {}

\* the poll just made for id ended its creation without scheduling the
\* construction
Aborted(id) == last.op = "poll" /\ last.id = id /\ id \notin initializingCharts

\* C17: a creation is aborted for a missing element only when the element
\* was missing on more than 10 of its polls, and for a missing context only
\* when the context was missing on more than 20 of its polls; the abort
\* constructs nothing and leaves the registered handle registered and live.
C17_SeparateBudgets ==
    \A id \in DOMAIN polls : Aborted(id) =>
        /\ polls[id].found = "absent" => polls[id].absent > CanvasRetries
        /\ polls[id].found = "noctx" => polls[id].noctx > ContextRetries
        /\ last.destroyed = {}

\* the promise of a creation for id is pending
Pending(id) == \E a \in awaiting : id \in a.pending

\* the most runs of tryCreateChart one creation can make: retryCount 0 to 20
MaxPolls == ContextRetries + 1

\* C18: with timers that fire, every creation that was started resolves its
\* promise, whatever the polls find, and no creation runs tryCreateChart
\* more than 21 times (a pending retry carries the number of runs made so
\* far and will make one more).
C18_CreationResolves ==
    /\ \A id \in Ids : Pending(id) ~> ~Pending(id)
    /\ [](\A t \in timers : t.kind = "poll" => t.retryCount + 1 <= MaxPolls)

\* a creation ended by a poll that found its budget used up
C18_Witness ==
    /\ Aborted(last.id)
    /\ {last.id} \in last.resolved
    /\ ~Pending(last.id)

\* what the overlay of the gauge draws
GaugeTicks == DrawnTicks(overlayMajorTickValues, overlaySubStepCount)

\* C19: the values of the generated full tick sequence are the values of
\* the ticks the overlay draws, so the pointer value drawn from the sequence
\* when the component is set up lies on a drawn tick.
C19_SameTicks ==
    /\ \A v \in Range(tickOut[1]) : \E tick \in GaugeTicks : OnTick(v, tick)
    /\ \A tick \in GaugeTicks : \E v \in Range(tickOut[1]) : OnTick(v, tick)
    /\ last.op = "init" => \E tick \in GaugeTicks : OnTick(value, tick)

\* C20: while the component is mounted, the debounced listener made by
\* setupResizeListener in the composable's mounted hook is on the window.
C20_ListenerWhileMounted ==
    phase = "mounted" => Registered

====
